---- MODULE Spec2Model ----
(***************************************************************************)
(* FreeRTOS thread view of cortex-debug: src/frontend/rtos/rtos-freertos.ts *)
(*                                                                         *)
(* The class RTOSFreeRTOS as a state machine.  Every asynchronous request  *)
(* to the debug session is one await point: a state of the model is the    *)
(* object's fields plus the request the running refresh() pass waits for,  *)
(* and an action is the synchronous code that runs when that request       *)
(* settles, up to the next request it issues.  The target's memory (the    *)
(* kernel lists and TCBs) and the answers of the debug session are the     *)
(* environment.                                                            *)
(*                                                                         *)
(* Spec is the session: detection, passes, the view.  It takes one loop    *)
(* iteration of getThreadInfo() as one step and keeps of a record what the *)
(* snapshot is ordered and labelled by.  IterSpec takes one iteration step *)
(* by step, with getStackInfo() and the stack and run time columns, for    *)
(* every TCB and stack memory.  WalkSpec is the walks of a pass over a     *)
(* list whose links and item count are corrupted.                          *)
(***************************************************************************)
EXTENDS Integers, Sequences, FiniteSets, TLC

\* ------------------------------------------------------------- bounds
\* Number of tasks (TCBs) in the target's memory.
NumTasks == 2
\* Stack addresses are 0..MaxAddr.
MaxAddr == 3
\* Run time counters are 0..MaxCounter, and the two values 250 and 1000.
MaxCounter == 2
\* The item count a corrupted list may hold is 0..MaxItems.
MaxItems == 3

\* ---------------------------------------------------------- constants
\* private readonly maxThreads = 1024
maxThreads == 1024
\* Number.MAX_SAFE_INTEGER: only its being larger than maxThreads and every
\* count read is used; the largest TLC integer stands for it.
MAX_SAFE_INTEGER == 2147483647
\* The value of a field that was never assigned.  Every comparison the code
\* makes with it (>, ===) is false, as with this number below every count.
Undefined == -2
\* The fill byte getThreadInfo() passes to getStackInfo(): 0xA5
waterMark == 165
\* The text 'Read mem fail' in the 'Stack Peak' column, which otherwise
\* holds the text of a number (not negative).
ReadMemFail == -1
\* The text '&lt;Unknown&gt;' in the 'Stack End' column, which otherwise
\* holds an address.
Unknown == -3

\* TCB addresses; a task's list item is embedded in its TCB, pvOwner = TCB.
Tasks == 1..NumTasks

\* The kernel globals tryDetect() resolves, in the order it resolves them.
SymbolOrder ==
    << "uxCurrentNumberOfTasks", "pxReadyTasksLists", "xDelayedTaskList1",
       "xDelayedTaskList2", "xPendingReadyList", "pxCurrentTCB",
       "xSuspendedTaskList", "xTasksWaitingTermination", "ulTotalRunTime" >>

Symbols == { SymbolOrder[i] : i \in 1..Len(SymbolOrder) }

\* The symbols looked up with opt = true.
OptionalSymbols == { "xSuspendedTaskList", "xTasksWaitingTermination", "ulTotalRunTime" }

RequiredSymbols == Symbols \ OptionalSymbols

\* The lists one pass walks, in the order refresh() walks them.  The target
\* is built with two ready buckets (children of pxReadyTasksLists).
ListOrder ==
    << "pxReadyTasksLists[0]", "pxReadyTasksLists[1]", "xDelayedTaskList1",
       "xDelayedTaskList2", "xPendingReadyList", "xSuspendedTaskList",
       "xTasksWaitingTermination" >>

NumLists == Len(ListOrder)

Lists == { ListOrder[i] : i \in 1..NumLists }

\* The state label refresh() passes to getThreadInfo() for each list.
StateLabel(l) ==
    CASE l \in { "pxReadyTasksLists[0]", "pxReadyTasksLists[1]" } -> "READY"
      [] l \in { "xDelayedTaskList1", "xDelayedTaskList2", "xPendingReadyList" } -> "BLOCKED"
      [] l = "xSuspendedTaskList" -> "SUSPENDED"
      [] OTHER -> "TERMINATED"

VARIABLES
    \* ---- target memory and debug session (environment)
    pxPrevious,          \* pxPrevious link of every list item and list sentinel
    uxNumberOfItems,     \* item count stored in every list, by index in ListOrder
    noTCBNumber,         \* the tasks whose TCB shows no uxTCBNumber
    pxCurrentTCB,        \* the kernel's current-TCB pointer
    thInfo,              \* the stack and run time fields of the TCB of task 1
    stackBytes,          \* the bytes at the stack addresses
    ulTotalRunTime,      \* the kernel's total run time counter
    symtab,              \* the symbols the debug session can resolve now
    \* ---- RTOSBase fields
    progStatus,          \* 'started' | 'stopped' | 'running'
    status,              \* 'none' | 'initialized' | 'failed'
    \* ---- RTOSFreeRTOS fields
    handles,             \* the RTOSVarHelper held for every symbol
    pxReadyTasksListsItems,
    stale,
    timeInfo,
    ulTotalRunTimeVal,
    uxCurrentNumberOfTasksVal,
    curThreadAddr,
    foundThreads,
    finalThreads,
    lastValidHtml,
    \* ---- the refresh() pass in flight
    pc,                  \* the request the pass waits for, or idle / hung
    listIx,              \* index in ListOrder of the list being walked
    threadCount,         \* getThreadInfo: const threadCount
    thIx,                \* getThreadInfo: loop counter
    curRef,              \* getThreadInfo: the node the next read is for
    log,                 \* what the pass wrote to the console
    \* ---- one iteration of the loop of getThreadInfo(), from the TCB read on
    ipc,                 \* none | tcb | readMemory | pushed | thrown
    stackInfo,           \* getStackInfo: const stackInfo
    th                   \* the stack and run time columns of const th

memVars ==
    << pxPrevious, uxNumberOfItems, noTCBNumber, pxCurrentTCB, thInfo, stackBytes,
       ulTotalRunTime >>

objVars ==
    << handles, pxReadyTasksListsItems, stale, timeInfo, ulTotalRunTimeVal,
       uxCurrentNumberOfTasksVal, curThreadAddr, foundThreads, finalThreads,
       lastValidHtml >>

passVars == << pc, listIx, threadCount, thIx, curRef, log >>

iterVars == << ipc, stackInfo, th >>

vars == << memVars, symtab, progStatus, status, objVars, passVars, iterVars >>

\* ------------------------------------------------------- target memory
\* uxTCBNumber of a task: the kernel numbers tasks in creation order, which
\* is unrelated to the order of their addresses (here: the reverse).
uxTCBNumber(t) == NumTasks + 1 - t

\* The address of the sentinel (xListEnd) of the i-th list.
ListEnd(i) == 0 - i

ListEnds == { ListEnd(i) : i \in 1..NumLists }

\* The members of the i-th list under placement w, as a set.
Members(w, i) == { t \in Tasks : w[t] = i }

RECURSIVE AscSeq(_)
\* A set of addresses as an ascending sequence.
AscSeq(S) ==
    IF S = {} THEN << >>
    ELSE LET m == CHOOSE x \in S : \A y \in S : x <= y
         IN << m >> \o AscSeq(S \ { m })

\* s back to front.
Reverse(s) == [ i \in 1..Len(s) |-> s[Len(s) + 1 - i] ]

\* The order in which a walk from the sentinel along pxPrevious meets the
\* members of the i-th list.
WalkOrder(w, desc, i) ==
    IF desc THEN Reverse(AscSeq(Members(w, i))) ELSE AscSeq(Members(w, i))

\* Position of t in sequence s.
IndexOf(s, t) == CHOOSE i \in 1..Len(s) : s[i] = t

\* The links of a kernel heap under placement w: every list a ring through
\* its sentinel, item counts exact.  w[t] = 0 is a task that is on no state
\* list at this stop (created or deleted but not yet linked or unlinked):
\* its item points to itself.
HeapLinks(w, desc) ==
    [ n \in Tasks \cup ListEnds |->
        IF n \in ListEnds
        THEN LET s == WalkOrder(w, desc, 0 - n)
             IN IF s = << >> THEN n ELSE s[1]
        ELSE IF w[n] = 0 THEN n
        ELSE LET s == WalkOrder(w, desc, w[n])
                 i == IndexOf(s, n)
             IN IF i = Len(s) THEN ListEnd(w[n]) ELSE s[i + 1] ]

HeapCounts(w) == [ i \in 1..NumLists |-> Cardinality(Members(w, i)) ]

\* The placements of the tasks on the lists: every way to spread them with
\* addresses ascending along ListOrder.  With the direction of each ring
\* (WalkOrder) a pass meets the tasks in ascending, descending or mixed
\* order of address.
Placements ==
    { w \in [ Tasks -> 0..NumLists ] : \A a, b \in Tasks : a < b => w[a] <= w[b] }

RECURSIVE RingFrom(_, _)
\* The tasks met from node along pxPrevious until a sentinel is met, or
\* fuel links were followed.
RingFrom(node, fuel) ==
    IF node \in ListEnds \/ fuel = 0 THEN << >>
    ELSE << node >> \o RingFrom(pxPrevious[node], fuel - 1)

\* The tasks on the i-th list of the target's memory.
ListNodes(i) == RingFrom(pxPrevious[ListEnd(i)], NumTasks)

\* The elements of a sequence.
Range(s) == { s[k] : k \in 1..Len(s) }

\* The target's lists are well formed: every task is on exactly one list
\* and every list's item count is its number of nodes.
WellFormedHeap ==
    /\ \A t \in Tasks : Cardinality({ i \in 1..NumLists : t \in Range(ListNodes(i)) }) = 1
    /\ \A i \in 1..NumLists : uxNumberOfItems[i] = Len(ListNodes(i))

\* Which TCBs show no uxTCBNumber: none, only the first task, or all.
NoTCBNumberChoices == { {}, { 1 }, Tasks }

\* What the debug session may be unable to resolve: at most one symbol.
SymtabChoices == { Symbols } \cup { Symbols \ { s } : s \in Symbols }

\* ------------------------------------------------------------ records
\* ThreadInfo with the state label of the list for every record.
ThreadInfoListLabel(threadId, state) ==
    [ Address |-> threadId,
      hasID   |-> threadId \notin noTCBNumber,
      ID      |-> IF threadId \in noTCBNumber THEN 0 ELSE uxTCBNumber(threadId),
      Status  |-> state ]

\* One FreeRTOSThreadInfo, reduced to the fields the snapshot is ordered
\* and labelled by.  hasID is whether the 'ID' key is present.
ThreadInfo(threadId, state) ==
    [ Address |-> threadId,
      hasID   |-> threadId \notin noTCBNumber,
      ID      |-> IF threadId \in noTCBNumber THEN 0 ELSE uxTCBNumber(threadId),
      Status  |-> IF threadId = curThreadAddr THEN "RUNNING" ELSE state ]

\* ------------------------------------------------- TCB and stack memory
\* The values a run time counter may hold.
Counters == (0..MaxCounter) \cup { 250, 1000 }

\* The stack addresses, and the addresses that hold a stack byte.
Addrs == 0..MaxAddr

ByteAddrs == 0..(MaxAddr - 1)

\* The fields of a TCB getStackInfo() and the Runtime column read: the -val
\* strings of pxStack, pxTopOfStack, pxEndOfStack and ulRunTimeCounter as
\* the numbers they spell, Undefined for a field the TCB_t of the build does
\* not have.
TCBs ==
    [ pxStack          : Addrs,
      pxTopOfStack     : Addrs,
      pxEndOfStack     : Addrs \cup { Undefined },
      ulRunTimeCounter : Counters \cup { Undefined } ]

\* What the memory at the stack addresses may hold: fill bytes and others.
StackMemories == [ ByteAddrs -> { waterMark, 0 } ]

\* stackInfo and th before getStackInfo() and the iteration have set them.
NoStackInfo ==
    [ stackStart |-> Undefined, stackTopCurrent |-> Undefined, stackCurUsed |-> Undefined,
      stackEnd |-> Undefined, stackSize |-> Undefined, stackFree |-> Undefined,
      stackPeakUsed |-> Undefined ]

NoTh ==
    [ keys |-> {}, StackBeg |-> Undefined, StackTop |-> Undefined, StackUsed |-> Undefined,
      StackEnd |-> Undefined, StackSize |-> Undefined, StackPeak |-> Undefined,
      StackFree |-> Undefined, Runtime |-> Undefined ]

\* -------------------------------------------------------------- Init
\* The object after construction, no pass running.
Constructed ==
    /\ progStatus = "started"
    /\ status = "none"
    /\ handles = [ s \in Symbols |-> "undefined" ]
    /\ pxReadyTasksListsItems = "undefined"
    /\ stale = FALSE
    /\ timeInfo = ""
    /\ uxCurrentNumberOfTasksVal = Undefined
    /\ curThreadAddr = Undefined
    /\ foundThreads = << >>
    /\ finalThreads = << >>
    /\ lastValidHtml = ""
    /\ pc = "idle"
    /\ listIx = 0
    /\ threadCount = 0
    /\ thIx = 0
    /\ curRef = 0
    /\ log = ""
    /\ stackInfo = NoStackInfo
    /\ th = NoTh

\* The sessions of Spec: every placement of the tasks on the lists; the
\* stack and run time columns of the records are left out (ipc = "none"),
\* so that one TCB and one stack memory stand for all.
Init ==
    /\ \E w \in Placements, desc \in BOOLEAN :
          /\ pxPrevious = HeapLinks(w, desc)
          /\ uxNumberOfItems = HeapCounts(w)
    /\ noTCBNumber \in NoTCBNumberChoices
    /\ pxCurrentTCB = 1
    /\ symtab \in SymtabChoices
    /\ thInfo = [ pxStack |-> 0, pxTopOfStack |-> 0, pxEndOfStack |-> Undefined,
                  ulRunTimeCounter |-> Undefined ]
    /\ stackBytes = [ a \in ByteAddrs |-> waterMark ]
    /\ ulTotalRunTime = 1000
    /\ ulTotalRunTimeVal = Undefined
    /\ ipc = "none"
    /\ Constructed

\* ------------------------------------------------------------ tryDetect
\* Whether getVarIfEmpty(prev, ...) asks the debug session: there is no
\* handle yet.
LooksUp(prev) == prev \in { "undefined", "null" }

\* RTOSBase.getVarIfEmpty(prev, frameId, name, opt): the handle held before
\* if there is one, else a fresh lookup; a failed lookup of an optional
\* symbol leaves no handle, a failed lookup of a required one throws.
getVarIfEmpty(prev, name) ==
    IF ~LooksUp(prev) THEN prev
    ELSE IF name \in symtab THEN "ref"
    ELSE IF name \in OptionalSymbols THEN "null"
    ELSE "throw"

RECURSIVE ResolveFrom(_, _)
\* The nine assignments of tryDetect() from the i-th on, starting with the
\* handles h: the handles at the end, and whether no lookup threw.
ResolveFrom(i, h) ==
    IF i > Len(SymbolOrder) THEN [ h |-> h, ok |-> TRUE ]
    ELSE LET name == SymbolOrder[i]
             r    == getVarIfEmpty(h[name], name)
         IN IF r = "throw" THEN [ h |-> h, ok |-> FALSE ]
            ELSE ResolveFrom(i + 1, [ h EXCEPT ![name] = r ])

\* status after a tryDetect() call whose block ran with outcome ok.
DetectStatus(ok) == IF ok THEN "initialized" ELSE "failed"

\* DetectAttempts with the block entered on every call.
DetectAttemptsAlways == TRUE

\* Whether tryDetect() enters the block that resolves the symbols.
DetectAttempts == status = "none"

RECURSIVE LookupsFrom(_, _)
\* The symbols the assignments of tryDetect() from the i-th on ask the debug
\* session for, starting with the handles h; a lookup that throws ends them.
LookupsFrom(i, h) ==
    IF i > Len(SymbolOrder) THEN {}
    ELSE LET name == SymbolOrder[i]
             r    == getVarIfEmpty(h[name], name)
         IN (IF LooksUp(h[name]) THEN { name } ELSE {})
               \cup (IF r = "throw" THEN {}
                     ELSE LookupsFrom(i + 1, [ h EXCEPT ![name] = r ]))

\* The symbols a tryDetect() call in the current state asks the debug
\* session for.
Lookups == IF DetectAttempts THEN LookupsFrom(1, handles) ELSE {}

\* tryDetect(useFrameId), called by the tracker when the target stops.
tryDetect ==
    /\ progStatus # "stopped"
    /\ progStatus' = "stopped"
    /\ IF DetectAttempts
       THEN LET res == ResolveFrom(1, handles)
            IN /\ handles' = res.h
               /\ status' = DetectStatus(res.ok)
       ELSE UNCHANGED << handles, status >>
    /\ UNCHANGED << memVars, symtab, pxReadyTasksListsItems, stale, timeInfo,
                    ulTotalRunTimeVal, uxCurrentNumberOfTasksVal, curThreadAddr,
                    foundThreads, finalThreads, lastValidHtml, passVars, iterVars >>

\* The target resumes: the tracker sets progStatus.
onContinued ==
    /\ progStatus # "running"
    /\ progStatus' = "running"
    /\ UNCHANGED << memVars, symtab, status, objVars, passVars, iterVars >>

\* Before detection has succeeded, what the debug session can resolve may
\* change from one stop to the next.
LoadSymbols ==
    /\ status # "initialized"
    /\ symtab' \in SymtabChoices \ { symtab }
    /\ UNCHANGED << memVars, progStatus, status, objVars, passVars, iterVars >>

\* -------------------------------------------------------------- sorting
\* parseInt(a['ID']) - parseInt(b['ID']); NaN when a key is missing, which
\* Array.prototype.sort takes as +0.
CmpID(a, b) == IF a.hasID /\ b.hasID THEN a.ID - b.ID ELSE 0

\* parseInt(a['Address']) - parseInt(b['Address'])
CmpAddress(a, b) == a.Address - b.Address

\* The comparison function of the branch taken.
Cmp(byID, a, b) == IF byID THEN CmpID(a, b) ELSE CmpAddress(a, b)

\* Whether the comparison function is a consistent one for the elements of
\* s (ECMAScript): only then is the order sort() produces determined.
Consistent(s, byID) ==
    \A i, j, k \in 1..Len(s) :
        /\ (Cmp(byID, s[i], s[j]) = 0 /\ Cmp(byID, s[j], s[k]) = 0)
              => Cmp(byID, s[i], s[k]) = 0
        /\ (Cmp(byID, s[i], s[j]) < 0 /\ Cmp(byID, s[j], s[k]) < 0)
              => Cmp(byID, s[i], s[k]) < 0
        /\ (Cmp(byID, s[i], s[j]) > 0 /\ Cmp(byID, s[j], s[k]) > 0)
              => Cmp(byID, s[i], s[k]) > 0

\* s in ascending order of the comparison function, equal elements in
\* their order in s (the sort of the engine is stable).
StableSort(s, byID) ==
    LET p == CHOOSE q \in Permutations(1..Len(s)) :
                 \A i, j \in 1..Len(s) :
                     i < j => \/ Cmp(byID, s[q[i]], s[q[j]]) < 0
                              \/ /\ Cmp(byID, s[q[i]], s[q[j]]) = 0
                                 /\ q[i] < q[j]
    IN [ i \in 1..Len(s) |-> s[p[i]] ]

\* Every order of the elements of s.
Rearrangements(s) ==
    { [ i \in 1..Len(s) |-> s[p[i]] ] : p \in Permutations(1..Len(s)) }

\* What s.sort(compare) may leave in s.
SortResults(s, byID) ==
    IF Consistent(s, byID) THEN { StableSort(s, byID) }
    ELSE Rearrangements(s)

\* Whether refresh() sorts by ID: if (this.foundThreads[0]['ID'])
SortsByID(found) == found[1].hasID

\* What the sort of refresh() may leave in foundThreads (found not empty).
SortedThreads(found) == SortResults(found, SortsByID(found))

\* -------------------------------------------------------------- refresh
\* What the objects of this model leave alone in every step of a pass.
SessionFrame ==
    UNCHANGED << memVars, symtab, progStatus, status, handles, lastValidHtml >>

\* The same for the steps that take a loop iteration of getThreadInfo() as a
\* whole.
PassFrame == SessionFrame /\ UNCHANGED iterVars

\* No list walk is in progress.
NoWalk == listIx' = 0 /\ threadCount' = 0 /\ thIx' = 0 /\ curRef' = 0

\* (new Date()).toISOString()
Date == "date"

\* this.timeInfo += ' in ' + timer.deltaMs() + ' ms'
WithElapsed(t) == t \o " in ms"

\* The pass issues the prelude request req and waits for it.
Await(req) ==
    /\ pc' = req
    /\ NoWalk
    /\ UNCHANGED << foundThreads, finalThreads, stale, timeInfo, log >>

\* The answers uxCurrentNumberOfTasks.getValue() may give.
CountStrings == { "", "-1", "0", "1", "2", "3", "4", "5", "1025" }

\* parseInt(str) on those answers.
parseInt(str) ==
    CASE str = "-1" -> 0 - 1
      [] str = "0" -> 0
      [] str = "1" -> 1
      [] str = "2" -> 2
      [] str = "3" -> 3
      [] str = "4" -> 4
      [] str = "5" -> 5
      [] str = "1025" -> 1025

\* The answers within the bounds of the model: no count, a non-positive
\* one, one task, as many as there are tasks, one more, and more than
\* maxThreads.
CountReads ==
    { str \in CountStrings :
        \/ str = ""
        \/ parseInt(str) <= 1
        \/ parseInt(str) \in { NumTasks, NumTasks + 1 }
        \/ parseInt(str) > maxThreads }

\* str ? parseInt(str) : Number.MAX_SAFE_INTEGER
DeclaredCount(str) == IF str = "" THEN MAX_SAFE_INTEGER ELSE parseInt(str)

\* (uxCurrentNumberOfTasksVal > 0) && (uxCurrentNumberOfTasksVal <= maxThreads)
CountPlausible(n) == n > 0 /\ n <= maxThreads

\* RefreshCatch with the records collected so far published.
RefreshCatchPublishes(found, e) ==
    /\ pc' = "idle"
    /\ log' = e
    /\ foundThreads' = found
    /\ finalThreads' = found
    /\ NoWalk
    /\ UNCHANGED << stale, timeInfo >>

\* RefreshCatch with the records collected so far dropped.
RefreshCatchDiscards(found, e) ==
    /\ pc' = "idle"
    /\ log' = e
    /\ foundThreads' = << >>
    /\ NoWalk
    /\ UNCHANGED << finalThreads, stale, timeInfo >>

\* The two handlers that end a failed pass: catch (e) and the rejection
\* handler of the first read.  Both resolve and log; neither publishes.
RefreshCatch(found, e) ==
    /\ pc' = "idle"
    /\ log' = e
    /\ foundThreads' = found
    /\ NoWalk
    /\ UNCHANGED << finalThreads, stale, timeInfo >>

\* The end of a pass whose list walks all resolved: sort, publish, clear
\* the stale flag, resolve.  foundThreads[0] of an empty array is undefined
\* and reading its 'ID' throws.
Publish(found) ==
    IF found = << >> THEN RefreshCatch(found, "TypeError")
    ELSE /\ finalThreads' \in SortedThreads(found)
         /\ foundThreads' = finalThreads'
         /\ stale' = FALSE
         /\ timeInfo' = WithElapsed(timeInfo)
         /\ pc' = "idle"
         /\ NoWalk
         /\ UNCHANGED log

\* The else branch of the count test: an empty snapshot is published.
PublishEmpty ==
    /\ finalThreads' = << >>
    /\ stale' = FALSE
    /\ timeInfo' = WithElapsed(timeInfo)
    /\ pc' = "idle"
    /\ NoWalk
    /\ UNCHANGED << foundThreads, log >>

\* The handle refresh() passes to getThreadInfo() for the i-th list is
\* usable: varRef && varRef.varReference.
VarRefOk(i) ==
    LET l == ListOrder[i]
    IN IF l \in Symbols THEN handles[l] = "ref"
       ELSE pxReadyTasksListsItems = "defined"

\* getThreadInfo() resolves at once, without a read.
WalkSkipped(i, found) ==
    \/ ~VarRefOk(i)
    \/ Len(found) >= uxCurrentNumberOfTasksVal

RECURSIVE NextList(_, _)
\* The first list from the i-th on whose getThreadInfo() call does not
\* resolve at once; NumLists + 1 if there is none.
NextList(i, found) ==
    IF i > NumLists THEN i
    ELSE IF WalkSkipped(i, found) THEN NextList(i + 1, found)
    ELSE i

\* getThreadInfo() tests the run state before its first read.
BusyCheck == progStatus # "stopped"

\* refresh() from its call of getThreadInfo() for the i-th list on, with
\* found collected: the calls that resolve at once, then either the end of
\* the pass, or Busy, or the read of the next list object.
WalkLists(i, found) ==
    LET j == NextList(i, found)
    IN IF j > NumLists THEN Publish(found)
       ELSE IF BusyCheck THEN RefreshCatch(found, "Busy")
       ELSE /\ pc' = "listobj"
            /\ listIx' = j
            /\ threadCount' = 0
            /\ thIx' = 0
            /\ curRef' = 0
            /\ foundThreads' = found
            /\ UNCHANGED << finalThreads, stale, timeInfo, log >>

\* RefreshReturnsAtOnce with the test left out.
RefreshNeverReturnsAtOnce == FALSE

\* The first test of refresh(): if (this.progStatus !== 'stopped')
RefreshReturnsAtOnce == progStatus # "stopped"

\* refresh() while the target is not halted resolves at once.
refreshNotStopped ==
    /\ status = "initialized"
    /\ pc \in { "idle", "hung" }
    /\ RefreshReturnsAtOnce
    /\ UNCHANGED vars

\* refresh() while the target is halted: up to the first read.  The tracker
\* does not call refresh() while a pass is running; a pass whose promise
\* can no longer settle (hung) has no code left to run, and the next call
\* starts afresh.
refresh ==
    /\ status = "initialized"
    /\ pc \in { "idle", "hung" }
    /\ ~RefreshReturnsAtOnce
    /\ stale' = TRUE
    /\ timeInfo' = Date
    /\ uxCurrentNumberOfTasksVal' = MAX_SAFE_INTEGER
    /\ foundThreads' = << >>
    /\ pc' = "count"
    /\ log' = ""
    /\ NoWalk
    /\ UNCHANGED << finalThreads, pxReadyTasksListsItems, curThreadAddr, ulTotalRunTimeVal >>
    /\ PassFrame

\* After the count: the ready buckets are resolved once per session.
AfterCount ==
    IF pxReadyTasksListsItems = "undefined" THEN Await("children")
    ELSE IF handles["ulTotalRunTime"] = "ref" THEN Await("runtime")
    ELSE Await("curtcb")

\* uxCurrentNumberOfTasks.getValue() answers str.
countRead ==
    /\ pc = "count"
    /\ \E str \in CountReads :
          /\ uxCurrentNumberOfTasksVal' = DeclaredCount(str)
          /\ IF CountPlausible(DeclaredCount(str)) THEN AfterCount
             ELSE PublishEmpty
    /\ UNCHANGED << pxReadyTasksListsItems, curThreadAddr, ulTotalRunTimeVal >>
    /\ PassFrame

\* uxCurrentNumberOfTasks.getValue() rejects.
countReadFails ==
    /\ pc = "count"
    /\ RefreshCatch(foundThreads, "read failed")
    /\ UNCHANGED << uxCurrentNumberOfTasksVal, pxReadyTasksListsItems, curThreadAddr,
                    ulTotalRunTimeVal >>
    /\ PassFrame

\* pxReadyTasksLists.getVarChildren() and the lookups of its children.
childrenRead ==
    /\ pc = "children"
    /\ pxReadyTasksListsItems' = "defined"
    /\ IF handles["ulTotalRunTime"] = "ref" THEN Await("runtime") ELSE Await("curtcb")
    /\ UNCHANGED << uxCurrentNumberOfTasksVal, curThreadAddr, ulTotalRunTimeVal >>
    /\ PassFrame

\* ulTotalRunTime.getValue() answers.
runtimeRead ==
    /\ pc = "runtime"
    /\ ulTotalRunTimeVal' = ulTotalRunTime
    /\ Await("curtcb")
    /\ UNCHANGED << uxCurrentNumberOfTasksVal, pxReadyTasksListsItems, curThreadAddr >>
    /\ PassFrame

\* pxCurrentTCB.getValue() answers; the list walks start.
curTCBRead ==
    /\ pc = "curtcb"
    /\ curThreadAddr' = pxCurrentTCB
    /\ UNCHANGED << uxCurrentNumberOfTasksVal, pxReadyTasksListsItems,
                    ulTotalRunTimeVal >>
    /\ WalkLists(1, foundThreads)
    /\ PassFrame

\* A read of the prelude rejects: caught by refresh().
preludeReadFails ==
    /\ pc \in { "children", "runtime", "curtcb" }
    /\ RefreshCatch(foundThreads, "read failed")
    /\ UNCHANGED << uxCurrentNumberOfTasksVal, pxReadyTasksListsItems, curThreadAddr,
                    ulTotalRunTimeVal >>
    /\ PassFrame

\* -------------------------------------------------------- getThreadInfo
\* (threadCount <= 0): the list is empty, getThreadInfo() resolves.
ListEmpty(n) == n <= 0

\* varRef.getVarChildrenObj() answers with the list object.
listObjRead ==
    /\ pc = "listobj"
    /\ LET n == uxNumberOfItems[listIx]
       IN IF ListEmpty(n) THEN WalkLists(listIx + 1, foundThreads)
          ELSE /\ pc' = "listend"
               /\ threadCount' = n
               /\ UNCHANGED << listIx, thIx, curRef, foundThreads, finalThreads, stale, timeInfo, log >>
    /\ UNCHANGED << uxCurrentNumberOfTasksVal, pxReadyTasksListsItems, curThreadAddr,
                    ulTotalRunTimeVal >>
    /\ PassFrame

\* varRef.getVarChildrenObj() rejects: getThreadInfo() rejects with it.
listObjReadFails ==
    /\ pc = "listobj"
    /\ RefreshCatch(foundThreads, "read failed")
    /\ UNCHANGED << uxCurrentNumberOfTasksVal, pxReadyTasksListsItems, curThreadAddr,
                    ulTotalRunTimeVal >>
    /\ PassFrame

\* The children of xListEnd arrive: the loop starts at its pxPrevious.
listEndRead ==
    /\ pc = "listend"
    /\ pc' = "node"
    /\ curRef' = pxPrevious[ListEnd(listIx)]
    /\ thIx' = 0
    /\ UNCHANGED << listIx, threadCount, foundThreads, finalThreads, stale, timeInfo, log >>
    /\ UNCHANGED << uxCurrentNumberOfTasksVal, pxReadyTasksListsItems, curThreadAddr,
                    ulTotalRunTimeVal >>
    /\ PassFrame

\* NextRef that stays on the node.
NextRefStuck(node) == node

\* The link the loop follows from a node: curRef = element['pxPrevious-ref']
NextRef(node) == pxPrevious[node]

\* LoopGoesOn with one iteration too many.
LoopGoesOnOneMore(i, n) == i <= n

\* The test of the loop after thIx++: thIx < threadCount
LoopGoesOn(i, n) == i < n

\* The end of a loop iteration whose reads (node, TCB, name, stack) all
\* succeeded: the record is pushed; then the next iteration, or
\* getThreadInfo() resolves.
PushRecord ==
    LET found == Append(foundThreads, ThreadInfo(curRef, StateLabel(ListOrder[listIx])))
    IN IF LoopGoesOn(thIx + 1, threadCount)
       THEN /\ pc' = "node"
            /\ thIx' = thIx + 1
            /\ curRef' = NextRef(curRef)
            /\ foundThreads' = found
            /\ UNCHANGED << listIx, threadCount, finalThreads, stale, timeInfo, log >>
       ELSE WalkLists(listIx + 1, found)

\* One loop iteration whose reads all succeed, as one step.
nodeRead ==
    /\ pc = "node"
    /\ curRef \in Tasks
    /\ PushRecord
    /\ UNCHANGED << uxCurrentNumberOfTasksVal, pxReadyTasksListsItems, curThreadAddr,
                    ulTotalRunTimeVal >>
    /\ PassFrame

\* The text getThreadInfo() logs when its try block fails.
WalkError == "FreeRTOS read thread info error"

\* catch (e) of getThreadInfo(): the error is logged and the promise is
\* neither resolved nor rejected.
WalkCatch ==
    /\ pc' = "hung"
    /\ log' = WalkError
    /\ NoWalk
    /\ UNCHANGED << foundThreads, finalThreads, stale, timeInfo >>

\* A read inside the try block of getThreadInfo() fails: of xListEnd, of a
\* node, of the TCB (always so for a sentinel, which has no owner), of the
\* name or of the stack of a task without a static end.
walkReadFails ==
    /\ pc \in { "listend", "node" }
    /\ WalkCatch
    /\ UNCHANGED << uxCurrentNumberOfTasksVal, pxReadyTasksListsItems, curThreadAddr,
                    ulTotalRunTimeVal >>
    /\ PassFrame

\* --------------------------------------- getStackInfo and one iteration
\* Math.abs
Abs(x) == IF x < 0 THEN 0 - x ELSE x

\* A -val string of a children object in a condition: true when the field
\* is there, whatever number it spells ("0" and "0x0" too).
StrTruthy(v) == v # Undefined

\* A number in a condition: false for undefined and for 0.
NumTruthy(n) == n # Undefined /\ n # 0

\* const incr = d < 0 ? 1 : -1
Incr(d) == IF d < 0 THEN 1 ELSE 0 - 1

\* stackInfo when getStackInfo() issues its readMemory request.
StackInfoAtRead(ti) ==
    LET start == ti.pxStack
        top   == ti.pxTopOfStack
        used  == Abs(start - top)
        base  == [ NoStackInfo EXCEPT !.stackStart = start,
                                      !.stackTopCurrent = top,
                                      !.stackCurUsed = used ]
    IN IF StrTruthy(ti.pxEndOfStack)
       THEN [ base EXCEPT !.stackEnd = ti.pxEndOfStack,
                          !.stackSize = Abs(start - ti.pxEndOfStack),
                          !.stackFree = Abs(start - ti.pxEndOfStack) - used ]
       ELSE base

\* memArg of the branch taken.
MemArg(ti) ==
    LET si == StackInfoAtRead(ti)
    IN IF StrTruthy(ti.pxEndOfStack)
       THEN [ memoryReference |->
                  IF Incr(si.stackStart - si.stackEnd) > 0 THEN si.stackStart
                  ELSE si.stackEnd,
              count |-> si.stackSize ]
       ELSE [ memoryReference |->
                  IF Incr(si.stackStart - si.stackTopCurrent) > 0 THEN si.stackStart
                  ELSE si.stackTopCurrent,
              count |-> si.stackCurUsed ]

\* The bytes a successful readMemory returns: count bytes from
\* memoryReference upwards.
ReadMemory(arg) == [ k \in 1..arg.count |-> stackBytes[arg.memoryReference + k - 1] ]

\* Orient without the reversal.
OrientAsRead(bytes, incr) == bytes

\* if (incr < 0) { stackInfo.bytes.reverse(); }
Orient(bytes, incr) == IF incr < 0 THEN Reverse(bytes) ELSE bytes

RECURSIVE ScanTop(_, _)
\* while (top > 0) { if (bytes[top - 1] !== waterMark) break; top--; }
ScanTop(bytes, top) ==
    IF top > 0 /\ bytes[top] = waterMark THEN ScanTop(bytes, top - 1) ELSE top

\* stackPeakUsed of the try block, from the bytes read.
PeakUsed(bytes, incr) == ScanTop(Orient(bytes, incr), Len(bytes))

\* stackInfo as getStackInfo() returns it after a readMemory that succeeded.
StackInfoRead(ti) ==
    LET si == StackInfoAtRead(ti)
    IN IF StrTruthy(ti.pxEndOfStack)
       THEN [ si EXCEPT !.stackPeakUsed =
                  PeakUsed(ReadMemory(MemArg(ti)), Incr(si.stackStart - si.stackEnd)) ]
       ELSE si

\* (x / total * 100).toFixed(2), in hundredths of a percent: the nearest
\* hundredth.
ToFixed2(x, total) == (2 * 10000 * x + total) \div (2 * total)

\* stackInfo.stackPeakUsed ? stackInfo.stackPeakUsed.toString() : 'Read mem fail'
StackPeakText(si) ==
    IF NumTruthy(si.stackPeakUsed) THEN si.stackPeakUsed ELSE ReadMemFail

\* thInfo['ulRunTimeCounter-val'] && this.ulTotalRunTimeVal
HasRuntime(ti) ==
    /\ StrTruthy(ti.ulRunTimeCounter)
    /\ NumTruthy(ulTotalRunTimeVal)

\* The stack and run time columns of th as pushed; keys are the columns
\* the record has.
MakeTh(si, ti) ==
    LET sized == NumTruthy(si.stackSize)
        timed == HasRuntime(ti)
    IN [ keys      |-> { "Stack Beg", "Stack Top", "Stack Used", "Stack End" }
                          \cup (IF sized THEN { "Stack Size", "Stack Peak", "Stack Free" }
                                ELSE {})
                          \cup (IF timed THEN { "Runtime" } ELSE {}),
         StackBeg  |-> si.stackStart,
         StackTop  |-> si.stackTopCurrent,
         StackUsed |-> si.stackCurUsed,
         StackEnd  |-> IF sized THEN si.stackEnd ELSE Unknown,
         StackSize |-> IF sized THEN si.stackSize ELSE Undefined,
         StackPeak |-> IF sized THEN StackPeakText(si) ELSE Undefined,
         StackFree |-> IF sized THEN si.stackFree ELSE Undefined,
         Runtime   |-> IF timed THEN ToFixed2(ti.ulRunTimeCounter, ulTotalRunTimeVal)
                       ELSE Undefined ]

\* What an iteration taken step by step leaves alone.
IterFrame ==
    /\ UNCHANGED << uxCurrentNumberOfTasksVal, pxReadyTasksListsItems, curThreadAddr,
                    ulTotalRunTimeVal >>
    /\ SessionFrame

\* getStackInfo(thInfo, 0xA5) is called with the TCB read: up to its
\* readMemory request.
getStackInfo ==
    /\ pc = "node"
    /\ ipc = "tcb"
    /\ ipc' = "readMemory"
    /\ stackInfo' = StackInfoAtRead(thInfo)
    /\ UNCHANGED << th, foundThreads, finalThreads, stale, timeInfo, passVars >>
    /\ IterFrame

\* readMemory answers with the bytes: getStackInfo() returns, th is built
\* and pushed.
readMemoryAnswers ==
    /\ pc = "node"
    /\ ipc = "readMemory"
    /\ ipc' = "pushed"
    /\ stackInfo' = StackInfoRead(thInfo)
    /\ th' = MakeTh(stackInfo', thInfo)
    /\ PushRecord
    /\ IterFrame

\* readMemory rejects.  With a static end the catch of getStackInfo() logs
\* and stackInfo is returned without stackPeakUsed; without one the await
\* throws out of getStackInfo() into the catch of getThreadInfo().
readMemoryFails ==
    /\ pc = "node"
    /\ ipc = "readMemory"
    /\ IF StrTruthy(thInfo.pxEndOfStack)
       THEN /\ ipc' = "pushed"
            /\ th' = MakeTh(stackInfo, thInfo)
            /\ PushRecord
       ELSE /\ ipc' = "thrown"
            /\ WalkCatch
            /\ UNCHANGED th
    /\ UNCHANGED stackInfo
    /\ IterFrame

\* -------------------------------------------------------------- getHTML
\* What getHTML() returns in the current state, by the branch it takes;
\* "TypeError" when it throws at Object.keys(this.finalThreads[0]).
getHTMLResult ==
    IF status = "none" THEN "not initialized"
    ELSE IF stale
    THEN IF uxCurrentNumberOfTasksVal = MAX_SAFE_INTEGER THEN "unable: count not read"
         ELSE IF uxCurrentNumberOfTasksVal > maxThreads THEN "unable: count invalid"
         ELSE IF lastValidHtml # "" THEN "unable: last may be stale"
         ELSE "unable"
    ELSE IF /\ uxCurrentNumberOfTasksVal # MAX_SAFE_INTEGER
            /\ Len(finalThreads) # uxCurrentNumberOfTasksVal
    THEN IF finalThreads = << >> THEN "TypeError" ELSE "expecting n found m + grid"
    ELSE IF Len(finalThreads) = 0 THEN "no threads detected"
    ELSE "grid"

\* getHTML(): the grid is remembered in lastValidHtml.
getHTML ==
    /\ status # "none"
    /\ lastValidHtml' =
          IF getHTMLResult \in { "grid", "expecting n found m + grid" } THEN "grid"
          ELSE lastValidHtml
    /\ UNCHANGED << memVars, symtab, progStatus, status, handles,
                    pxReadyTasksListsItems, stale, timeInfo, ulTotalRunTimeVal,
                    uxCurrentNumberOfTasksVal, curThreadAddr, foundThreads,
                    finalThreads, passVars, iterVars >>

\* ----------------------------------------------------------------- Spec
Next ==
    \/ tryDetect
    \/ onContinued
    \/ LoadSymbols
    \/ refreshNotStopped
    \/ refresh
    \/ countRead
    \/ countReadFails
    \/ childrenRead
    \/ runtimeRead
    \/ curTCBRead
    \/ preludeReadFails
    \/ listObjRead
    \/ listObjReadFails
    \/ listEndRead
    \/ nodeRead
    \/ walkReadFails
    \/ getHTML

Spec == Init /\ [][Next]_vars

\* One loop iteration of getThreadInfo() step by step: the first iteration
\* of a pass, for task 1 at the head of the first ready list, from the
\* moment its TCB has been read; for every TCB, stack memory and total run
\* time counter, the counter read if its symbol was resolved.
IterInit ==
    /\ pxPrevious = HeapLinks([ t \in Tasks |-> 1 ], FALSE)
    /\ uxNumberOfItems = HeapCounts([ t \in Tasks |-> 1 ])
    /\ noTCBNumber = {}
    /\ pxCurrentTCB = 1
    /\ symtab \in { Symbols, Symbols \ { "ulTotalRunTime" } }
    /\ thInfo \in TCBs
    /\ stackBytes \in StackMemories
    /\ ulTotalRunTime \in Counters
    /\ progStatus = "stopped"
    /\ status = "initialized"
    /\ handles = [ s \in Symbols |-> getVarIfEmpty("undefined", s) ]
    /\ pxReadyTasksListsItems = "defined"
    /\ stale = TRUE
    /\ timeInfo = Date
    /\ ulTotalRunTimeVal =
          IF handles["ulTotalRunTime"] = "ref" THEN ulTotalRunTime ELSE Undefined
    /\ uxCurrentNumberOfTasksVal = NumTasks
    /\ curThreadAddr = pxCurrentTCB
    /\ foundThreads = << >>
    /\ finalThreads = << >>
    /\ lastValidHtml = ""
    /\ pc = "node"
    /\ listIx = 1
    /\ threadCount = uxNumberOfItems[1]
    /\ thIx = 0
    /\ curRef = pxPrevious[ListEnd(1)]
    /\ log = ""
    /\ ipc = "tcb"
    /\ stackInfo = NoStackInfo
    /\ th = NoTh

IterNext ==
    \/ getStackInfo
    \/ readMemoryAnswers
    \/ readMemoryFails

IterSpec == IterInit /\ [][IterNext]_vars

\* The links of a heap whose first ready list is corrupted: its sentinel and
\* every task point to any task or to that sentinel; the other lists are
\* empty.
CorruptLinks ==
    { [ n \in Tasks \cup ListEnds |-> IF n \in DOMAIN g THEN g[n] ELSE n ] :
        g \in [ Tasks \cup { ListEnd(1) } -> Tasks \cup { ListEnd(1) } ] }

\* The walks of a pass over such a heap, from the moment getThreadInfo() has
\* asked for the object of the first ready list: the links are any, and
\* the item count of the list is any number up to MaxItems, whatever the
\* links are.
WalkInit ==
    /\ pxPrevious \in CorruptLinks
    /\ \E c \in 0..MaxItems :
          uxNumberOfItems = [ i \in 1..NumLists |-> IF i = 1 THEN c ELSE 0 ]
    /\ noTCBNumber = {}
    /\ pxCurrentTCB = 1
    /\ symtab = Symbols
    /\ thInfo = [ pxStack |-> 0, pxTopOfStack |-> 0, pxEndOfStack |-> Undefined,
                  ulRunTimeCounter |-> Undefined ]
    /\ stackBytes = [ a \in ByteAddrs |-> waterMark ]
    /\ ulTotalRunTime = 1000
    /\ progStatus = "stopped"
    /\ status = "initialized"
    /\ handles = [ s \in Symbols |-> "ref" ]
    /\ pxReadyTasksListsItems = "defined"
    /\ stale = TRUE
    /\ timeInfo = Date
    /\ ulTotalRunTimeVal = ulTotalRunTime
    /\ uxCurrentNumberOfTasksVal \in { 1, NumTasks }
    /\ curThreadAddr = pxCurrentTCB
    /\ foundThreads = << >>
    /\ finalThreads = << >>
    /\ lastValidHtml = ""
    /\ pc = "listobj"
    /\ listIx = 1
    /\ threadCount = 0
    /\ thIx = 0
    /\ curRef = 0
    /\ log = ""
    /\ ipc = "none"
    /\ stackInfo = NoStackInfo
    /\ th = NoTh

WalkNext ==
    \/ onContinued
    \/ listObjRead
    \/ listEndRead
    \/ nodeRead
    \/ walkReadFails

WalkSpec == WalkInit /\ [][WalkNext]_vars


\* =========================================================== properties
\* A step in which the pass logs an exception it caught.
LogsError == log' # "" /\ log' # log

\* A step in which the pass issues a request to the debug session.
IssuesRead ==
    /\ pc' \in { "count", "children", "runtime", "curtcb", "listobj", "listend", "node" }
    /\ << pc', listIx', thIx' >> # << pc, listIx, thIx >>

\* s is a prefix of t.
IsPrefix(s, t) == Len(s) <= Len(t) /\ \A k \in 1..Len(s) : s[k] = t[k]

\* The addresses of the records of a snapshot.
Addresses(s) == { s[k].Address : k \in 1..Len(s) }

\* Every symbol of tryDetect() has a handle.
AllResolved == \A name \in Symbols : handles[name] = "ref"

\* Everything the pass has collected once the answer it waits for is in:
\* the accumulator, with the record of the node being read.
Accumulated ==
    IF pc = "node"
    THEN Append(foundThreads, ThreadInfo(curRef, StateLabel(ListOrder[listIx])))
    ELSE foundThreads

\* C1: an exception during a pass leaves finalThreads as it was and the stale
\* flag set; finalThreads changes only in the step that ends a pass without
\* an exception, and then to the empty list or to the whole accumulator of
\* that pass (nothing collected left out) as the sort of that pass left it.
C1_FailedPassKeepsSnapshot ==
    [][ /\ LogsError => (finalThreads' = finalThreads /\ stale /\ stale')
        /\ finalThreads' # finalThreads =>
              /\ ~LogsError
              /\ pc \notin { "idle", "hung" }
              /\ pc' = "idle"
              /\ ~stale'
              /\ \/ finalThreads' = << >>
                 \/ /\ finalThreads' = foundThreads'
                    /\ Len(finalThreads') = Len(Accumulated)
                    /\ finalThreads' \in SortedThreads(Accumulated) ]_vars

\* C1 witness: a pass failed after it had collected records, with the
\* snapshot of an earlier pass still in place.
C1_Witness ==
    /\ pc = "idle"
    /\ log = "read failed"
    /\ stale
    /\ foundThreads # << >>
    /\ Len(finalThreads) > Len(foundThreads)

\* C2: after a pass that read a count that is non-positive or above
\* maxThreads, no list was walked, the snapshot is empty and getHTML()
\* returns a diagnostic for that case and does not throw.
C2_ImplausibleCountDiagnostic ==
    ( /\ pc = "idle"
      /\ uxCurrentNumberOfTasksVal \notin { Undefined, MAX_SAFE_INTEGER }
      /\ ~CountPlausible(uxCurrentNumberOfTasksVal) )
    => /\ foundThreads = << >>
       /\ finalThreads = << >>
       /\ getHTMLResult \in { "no threads detected", "unable: count invalid" }

\* C3: when a read inside the node loop of getThreadInfo() fails, only the
\* rest of that list is given up: the records collected are kept and the
\* pass goes on to the lists after it, or, after the last list, ends.
C3_WalkFailureAbortsOnlyList ==
    [][ (pc = "node" /\ log' = WalkError) =>
            /\ foundThreads' = foundThreads
            /\ pc' \in { "listobj", "idle" } ]_vars

\* C4 as claimed: after a Busy condition the records collected before it are
\* in the snapshot the pass leaves for the consumer.
C4_BusyRecordsPublished ==
    (pc = "idle" /\ log = "Busy") =>
        /\ ~stale
        /\ \A k \in 1..Len(foundThreads) :
              \E m \in 1..Len(finalThreads) : finalThreads[m] = foundThreads[k]

\* C4 as amended: a Busy condition is raised only while the target is not
\* halted and ends the whole pass; nothing is published (finalThreads is
\* unchanged and the stale flag stays set), and the records collected
\* before it all stay in foundThreads.
C4_BusyAbortsPassKeepsRecords ==
    [][ (log' = "Busy" /\ log # "Busy") =>
            /\ progStatus # "stopped"
            /\ pc' = "idle"
            /\ finalThreads' = finalThreads
            /\ stale /\ stale'
            /\ IsPrefix(foundThreads, foundThreads') ]_vars

\* C4 witness: a pass ended by Busy with records collected and none of
\* them published.
C4_Witness ==
    /\ pc = "idle"
    /\ log = "Busy"
    /\ stale
    /\ foundThreads # << >>
    /\ finalThreads = << >>

\* C5: a request is issued to the debug session only while the target is
\* halted.
C5_NoReadWhileRunning == [][ IssuesRead => progStatus = "stopped" ]_vars

\* C6: with well-formed lists, every symbol resolved and the declared count
\* equal to the number of tasks, a pass that ran to its end publishes
\* exactly one record per task.
C6_OneRecordPerTask ==
    ( /\ pc = "idle"
      /\ ~stale
      /\ WellFormedHeap
      /\ AllResolved
      /\ uxCurrentNumberOfTasksVal = NumTasks )
    => /\ Len(finalThreads) = NumTasks
       /\ Addresses(finalThreads) = Tasks

\* C6 witness: such a pass has published, with tasks found on different
\* lists.
C6_Witness ==
    /\ pc = "idle"
    /\ ~stale
    /\ WellFormedHeap
    /\ AllResolved
    /\ uxCurrentNumberOfTasksVal = NumTasks
    /\ Len(finalThreads) = NumTasks
    /\ \E k, m \in 1..Len(finalThreads) :
          { finalThreads[k].Status, finalThreads[m].Status } = { "RUNNING", "SUSPENDED" }

\* s is in ascending order of ID.
AscendingByID(s) == \A k, m \in 1..Len(s) : k < m => s[k].ID <= s[m].ID

\* s is in ascending order of address.
AscendingByAddress(s) == \A k, m \in 1..Len(s) : k < m => s[k].Address <= s[m].Address

\* C7: the published snapshot is in ascending order of ID when every record
\* has an ID, and in ascending order of address when any record has none.
C7_SnapshotOrder ==
    IF \A k \in 1..Len(finalThreads) : finalThreads[k].hasID
    THEN AscendingByID(finalThreads)
    ELSE AscendingByAddress(finalThreads)

\* C8: a pass with a plausible declared count whose reads all succeeded
\* while the target stayed halted is not a failure, whatever number of
\* records it found: the snapshot is published, the stale flag is cleared,
\* and a mismatch is shown as a warning with the snapshot.
C8_CountMismatchNotFatal ==
    ( /\ pc = "idle"
      /\ CountPlausible(uxCurrentNumberOfTasksVal)
      /\ log \notin { "read failed", "Busy", WalkError } )
    => /\ ~stale
       /\ finalThreads = foundThreads
       /\ Len(finalThreads) # uxCurrentNumberOfTasksVal
             => getHTMLResult = "expecting n found m + grid"

\* C9: during a pass the number of records collected is at most the
\* declared count.
C9_CollectedWithinDeclared ==
    CountPlausible(uxCurrentNumberOfTasksVal)
        => Len(foundThreads) <= uxCurrentNumberOfTasksVal

\* C10: a tryDetect() call after a failed detection, at a stop where every
\* required symbol resolves, ends with detection succeeded.
C10_DetectionRetried ==
    [][ ( /\ status = "failed"
          /\ progStatus # "stopped"
          /\ progStatus' = "stopped"
          /\ RequiredSymbols \subseteq symtab )
        => status' = "initialized" ]_vars

\* C11: a tryDetect() call asks the debug session only for symbols whose
\* handle is not resolved yet, and for none once detection has succeeded;
\* a resolved handle stays as it is.
C11_ResolvedNeverLookedUpAgain ==
    [][ (progStatus # "stopped" /\ progStatus' = "stopped") =>
            /\ \A name \in Lookups : handles[name] # "ref"
            /\ status = "initialized" => Lookups = {}
            /\ \A name \in Symbols : handles[name] = "ref" => handles'[name] = "ref" ]_vars

\* C11 witness: tryDetect() was called again after detection had succeeded
\* (the target had resumed during a pass and is halted again), with an
\* optional symbol still without a handle.
C11_Witness ==
    /\ status = "initialized"
    /\ progStatus = "stopped"
    /\ pc = "idle"
    /\ log = "Busy"
    /\ \E name \in OptionalSymbols : handles[name] = "null"

\* The state label of the list a task is on in the target's memory.
LabelOfListOf(t) ==
    LET i == CHOOSE j \in 1..NumLists : t \in Range(ListNodes(j))
    IN StateLabel(ListOrder[i])

\* C12: in the published snapshot the record of the task at the current-TCB
\* address read in the pass is RUNNING, whichever list it is on, and every
\* other record has the state label of the list it was found on.
C12_RunningOrListLabel ==
    \A k \in 1..Len(finalThreads) :
        LET r == finalThreads[k]
        IN IF r.Address = curThreadAddr THEN r.Status = "RUNNING"
           ELSE r.Status = LabelOfListOf(r.Address)

\* C12 witness: a snapshot with the current task found on the list of the
\* terminated tasks, and another task labelled by its list.
C12_Witness ==
    /\ Len(finalThreads) = NumTasks
    /\ curThreadAddr \in Range(ListNodes(NumLists))
    /\ \E k, m \in 1..Len(finalThreads) :
          /\ finalThreads[k].Address = curThreadAddr
          /\ finalThreads[k].Status = "RUNNING"
          /\ finalThreads[m].Status = "TERMINATED"

\* C13: while no pass is running and the target is not halted, no step (a
\* refresh() call among them) issues a request or changes the stale flag,
\* the snapshot, the accumulator, the declared count or the timestamp, and
\* no pass is left pending by it.
C13_RefreshNotHaltedNoOp ==
    [][ (pc \in { "idle", "hung" } /\ progStatus # "stopped") =>
            /\ ~IssuesRead
            /\ pc' = pc
            /\ UNCHANGED << stale, finalThreads, foundThreads,
                            uxCurrentNumberOfTasksVal, timeInfo >> ]_vars

\* C13 witness: detection has succeeded, a pass has published, and the
\* target runs: refresh() is enabled and returns at once.
C13_Witness ==
    /\ status = "initialized"
    /\ progStatus = "running"
    /\ pc = "idle"
    /\ ~stale
    /\ finalThreads # << >>
    /\ timeInfo = "date in ms"
    /\ ENABLED refreshNotStopped

\* C17: a pass is never left pending with no request outstanding.
C17_PassSettles == pc # "hung"

\* C14: the stack metrics getStackInfo() computes are never negative,
\* wherever the current top lies.
C14_StackMetricsNonNegative ==
    ipc \in { "readMemory", "pushed" } =>
        /\ stackInfo.stackCurUsed >= 0
        /\ StrTruthy(thInfo.pxEndOfStack) =>
              /\ stackInfo.stackSize >= 0
              /\ stackInfo.stackFree >= 0

\* The stack byte at distance k from the stackEnd side of the region
\* between stackStart and stackEnd (k = 1: the byte next to stackEnd).
ByteFromEnd(ti, k) ==
    IF ti.pxStack < ti.pxEndOfStack THEN stackBytes[ti.pxEndOfStack - k]
    ELSE stackBytes[ti.pxEndOfStack + k - 1]

\* The length of the longest run of fill bytes from the stackEnd side of
\* the region towards stackStart.
FillRun(ti) ==
    LET size == Abs(ti.pxStack - ti.pxEndOfStack)
    IN CHOOSE r \in 0..size :
          /\ \A k \in 1..r : ByteFromEnd(ti, k) = waterMark
          /\ r < size => ByteFromEnd(ti, r + 1) # waterMark

\* C15: with a static end and a readMemory that succeeded, stackPeakUsed is
\* stackSize minus the length of the run of fill bytes from the stackEnd
\* side, whichever of stackStart and stackEnd is the lower address.
C15_PeakIsSizeMinusFillRun ==
    [][ (readMemoryAnswers /\ StrTruthy(thInfo.pxEndOfStack)) =>
            /\ stackInfo'.stackSize = Abs(thInfo.pxStack - thInfo.pxEndOfStack)
            /\ stackInfo'.stackPeakUsed = stackInfo'.stackSize - FillRun(thInfo) ]_vars

\* C15 witness: a peak computed for a stack with stackStart above stackEnd,
\* fill bytes at the stackEnd side and none at the stackStart side.
C15_Witness ==
    /\ ipc = "pushed"
    /\ StrTruthy(thInfo.pxEndOfStack)
    /\ thInfo.pxStack > thInfo.pxEndOfStack + 1
    /\ stackBytes[thInfo.pxEndOfStack] = waterMark
    /\ stackBytes[thInfo.pxStack - 1] # waterMark
    /\ stackInfo.stackPeakUsed = stackInfo.stackSize - 1

\* h is a hundredth of a percent nearest to x / total * 100.
NearestHundredth(h, x, total) == 2 * Abs(h * total - 10000 * x) <= total

\* C16: the record has a Runtime column exactly when the task's counter and
\* the total counter are both there and not zero, and then it holds
\* task / total * 100 to two decimals.
C16_RuntimeOnlyWhenBothNonZero ==
    ipc = "pushed" =>
        /\ "Runtime" \in th.keys <=>
              /\ thInfo.ulRunTimeCounter \notin { Undefined, 0 }
              /\ ulTotalRunTimeVal \notin { Undefined, 0 }
        /\ "Runtime" \in th.keys =>
              NearestHundredth(th.Runtime, thInfo.ulRunTimeCounter, ulTotalRunTimeVal)

\* C19: for a task with a static end and a stack size that is not zero, the
\* record is pushed with its size, end and free columns whether readMemory
\* succeeds or fails, and its Stack Peak column is 'Read mem fail' exactly
\* when readMemory failed, the peak computed (0 too) otherwise.
C19_ReadMemFailOnlyOnFailure ==
    [][ ( /\ ipc = "readMemory"
          /\ ipc' # ipc
          /\ StrTruthy(thInfo.pxEndOfStack)
          /\ thInfo.pxStack # thInfo.pxEndOfStack )
        => /\ ipc' = "pushed"
           /\ { "Stack End", "Stack Size", "Stack Peak", "Stack Free" } \subseteq th'.keys
           /\ th'.StackSize = Abs(thInfo.pxStack - thInfo.pxEndOfStack)
           /\ th'.StackPeak = ReadMemFail <=> readMemoryFails
           /\ readMemoryAnswers => th'.StackPeak = stackInfo'.stackPeakUsed ]_vars

\* C20: for a task without a static end the record is pushed with its
\* start, top and used columns and no size, peak or free column, whether
\* readMemory succeeds or fails; the walk and the pass go on.
C20_NoStaticEndReadNotFatal ==
    [][ ( /\ ipc = "readMemory"
          /\ ipc' # ipc
          /\ ~StrTruthy(thInfo.pxEndOfStack) )
        => /\ ipc' = "pushed"
           /\ Len(foundThreads') = Len(foundThreads) + 1
           /\ th'.keys \cap { "Stack Size", "Stack Peak", "Stack Free" } = {}
           /\ { "Stack Beg", "Stack Top", "Stack Used" } \subseteq th'.keys
           /\ th'.StackUsed = Abs(thInfo.pxStack - thInfo.pxTopOfStack)
           /\ pc' # "hung"
           /\ log' # WalkError ]_vars

RECURSIVE Follow(_, _)
\* The node reached from n by following k pxPrevious links.
Follow(n, k) == IF k = 0 THEN n ELSE Follow(pxPrevious[n], k - 1)

\* A step of the pass from a node read.
NodeStep == pc = "node" /\ << pc', listIx', thIx' >> # << pc, listIx, thIx >>

\* The walk goes on to the next node of the same list.
WalkGoesOn == pc' = "node" /\ listIx' = listIx /\ thIx' = thIx + 1

\* C18: a walk over a list whose item count reads c reads, as long as the
\* reads succeed, the nodes 1, 2, ... links behind the sentinel, emits one
\* record for each, and finishes after exactly c of them, whatever the
\* links are.
C18_WalkFollowsCountLinks ==
    [][ (NodeStep /\ log' # WalkError) =>
            /\ threadCount = uxNumberOfItems[listIx]
            /\ curRef = Follow(ListEnd(listIx), thIx + 1)
            /\ Len(foundThreads') = Len(foundThreads) + 1
            /\ WalkGoesOn <=> thIx + 1 < threadCount
            /\ WalkGoesOn => curRef' = Follow(ListEnd(listIx), thIx + 2)
            /\ ~WalkGoesOn =>
                  /\ thIx + 1 = threadCount
                  /\ Len(Accumulated) >= threadCount
                  /\ \A k \in 1..threadCount :
                        Accumulated[Len(Accumulated) - threadCount + k].Address
                            = Follow(ListEnd(listIx), k) ]_vars

\* C18 witness: the pass has published the records of a walk over a list
\* whose links never lead back to the sentinel and whose item count
\* exceeds the number of tasks: a record for every item counted, some
\* task met twice.
C18_Witness ==
    /\ pc = "idle"
    /\ log = ""
    /\ uxNumberOfItems[1] > NumTasks
    /\ \A k \in 1..uxNumberOfItems[1] : Follow(ListEnd(1), k) \in Tasks
    /\ Len(finalThreads) = uxNumberOfItems[1]
    /\ Cardinality(Addresses(finalThreads)) < Len(finalThreads)

====
